---- MODULE Spec2Model ----
(***************************************************************************)
(* contrib/asmap/asmap_node_diff.py: compare how two asmap snapshots       *)
(* classify the clearnet peers of a node address file, per time horizon.   *)
(* The script is single-threaded; the model follows main() statement by    *)
(* statement: parse_args/check_input, get_clearnet_nodes, read_asmap       *)
(* (twice), compare_asmaps, and the two trailing prints.                   *)
(***************************************************************************)
EXTENDS Integers, Sequences, FiniteSets, TLC

\* ---------------------------------------------------------------- bounds
MaxEntries == 3            \* longest node address file that is explored

\* ------------------------------------------------------- program constants
WeekSeconds == 7 * 24 * 60 * 60
DaySeconds == 24 * 60 * 60
HourSeconds == 60 * 60

\* the three positional arguments, in the order parse_args checks them
ArgNames == << "node_addresses_file", "previous_asmap_file", "current_asmap_file" >>

\* what Path.exists() / Path.is_file() can say about a path
FileKinds == { "file", "missing", "directory" }

\* ------------------------------------------------------------- the inputs
\* textual addresses, as the groups of the literal: four octets for a dotted
\* quad, eight groups for an IPv6 literal
AddrV4 == << 1, 2, 3, 4 >>
AddrV6 == << 8193, 3512, 0, 0, 0, 0, 0, 1 >>
AddrBad == << 1, 2, 3, 256 >>

\* values of int(time.time()): a clock that was never set, and a current one
Nows == { 1000, 1700000000 }

\* "time" values of entries: negative, older than a week, within the last
\* hour (relative to the current clock of Nows)
TimeNegative == 0 - 1
TimeOld == 1700000000 - 1000000
TimeRecent == 1700000000 - 1000

Fields == { "network", "time", "address", "port" }

Entry(keys, network, time, address) ==
    [ keys |-> keys, network |-> network, time |-> time, address |-> address, port |-> 8333 ]

\* the entries a node address file is built from; keys is the set of fields
\* the JSON object has
Entries ==
    { Entry(Fields, "ipv4", t, AddrV4) : t \in { TimeNegative, TimeOld, TimeRecent } }
    \cup { Entry(Fields, "ipv6", TimeRecent, AddrV6) }
    \cup { Entry(Fields, "ipv4", t, AddrBad) : t \in { TimeNegative, TimeRecent } }
    \cup { Entry(Fields, "onion", TimeRecent, AddrBad) }
    \cup { Entry(Fields \ { f }, "onion", TimeRecent, AddrBad) : f \in { "port", "time" } }
    \cup { Entry(Fields \ { f }, "ipv4", TimeRecent, AddrV4) : f \in { "port", "address" } }
    \cup { Entry(Fields \ { "network" }, "ipv4", TimeRecent, AddrV4) }

RECURSIVE SeqsUpTo(_, _)
SeqsUpTo(S, n) ==
    IF n = 0 THEN { << >> }
    ELSE LET shorter == SeqsUpTo(S, n - 1)
         IN shorter \cup { Append(s, e) : s \in { x \in shorter : Len(x) = n - 1 }, e \in S }

\* json.load(f): the parsed contents of the node address file
DataFiles == SeqsUpTo(Entries, MaxEntries)

\* ------------------------------------------------ ipaddress / asmap module
\* ipaddress.ip_network(address): a network object, or ValueError
ValidV4(a) == Len(a) = 4 /\ \A i \in 1..4 : a[i] \in 0..255
ValidV6(a) == Len(a) = 8 /\ \A i \in 1..8 : a[i] \in 0..65535
ValidAddress(a) == ValidV4(a) \/ ValidV6(a)

ip_network(a) ==
    IF ValidV4(a)
    THEN [ version |-> 4, groups |-> a ]
    ELSE [ version |-> 6, groups |-> a ]

\* asmap.net_to_prefix: the lookup key of a network; an IPv4 host is its
\* 32-bit value, an IPv6 host its groups
net_to_prefix(net) ==
    IF net.version = 4
    THEN << 4, ((net.groups[1] * 256 + net.groups[2]) * 256 + net.groups[3]) * 256 + net.groups[4] >>
    ELSE << 6 >> \o net.groups

Prefix4 == net_to_prefix(ip_network(AddrV4))
Prefix6 == net_to_prefix(ip_network(AddrV6))

Unknown == << "Unknown", 0 >>
AS(n) == << "AS", n >>

\* a loaded snapshot: the prefixes it maps, each to an AS number
Snapshots ==
    { [ p \in { Prefix4 } |-> 64500 ],
      [ p \in { Prefix4 } |-> 64501 ],
      [ p \in { Prefix6 } |-> 64500 ] }

\* ASMap.lookup(prefix): the AS number, or Unknown (None) without a match
lookup(snapshot, prefix) ==
    IF prefix \in DOMAIN snapshot THEN AS(snapshot[prefix]) ELSE Unknown

\* ------------------------------------------------------------------ state
VARIABLES
    files,          \* what each argument's path is on disk
    pc,             \* the statement main() is at
    file_idx,       \* parse_args: index of the path being checked
    opened,         \* arguments whose file has been opened
    data,           \* get_clearnet_nodes: the parsed JSON
    entry_idx,      \* get_clearnet_nodes: position of the entry loop
    nodes,          \* the list of Node
    asmap_prev,
    asmap_cur,
    thresholds,     \* compare_asmaps: (name, epoch) in dict order
    thres_idx,      \* compare_asmaps: position of the horizon loop
    node_idx,       \* compare_asmaps: position of the node loop
    nodes_total,
    nodes_changed,
    output,         \* lines printed so far
    error,          \* how the process stopped, "none" while it has not
    exit_status     \* -1 while running

vars == << files, pc, file_idx, opened, data, entry_idx, nodes, asmap_prev, asmap_cur,
           thresholds, thres_idx, node_idx, nodes_total, nodes_changed, output,
           error, exit_status >>

Running == 0 - 1

Init ==
    /\ files \in [ 1..3 -> FileKinds ]
    /\ pc = "parse_args"
    /\ file_idx = 1
    /\ opened = {}
    /\ data = << >>
    /\ entry_idx = 0
    /\ nodes = << >>
    /\ asmap_prev = << >>
    /\ asmap_cur = << >>
    /\ thresholds = << >>
    /\ thres_idx = 0
    /\ node_idx = 0
    /\ nodes_total = 0
    /\ nodes_changed = 0
    /\ output = << >>
    /\ error = "none"
    /\ exit_status = Running

\* ------------------------------------------------------------ print lines
\* a printed line, as the (key, value) pairs of its text
ErrorLine(why, file) == << << "Error", why >>, << "input", ArgNames[file] >> >>
ExtractedLine(n, file) == << << "Extracted", n >>, << "from", ArgNames[file] >> >>
LoadedLine(file) == << << "Loaded", ArgNames[file] >> >>
ArgsLine == << << "Namespace", ArgNames >> >>
HelloLine == << << "Hello", "world" >> >>

\* f"{100*nodes_changed_share:.1f}": the percentage in tenths, rounded to the
\* nearest tenth (ties to even, as the float formatting does)
SharePercentTenths(changed, total) ==
    LET q == (1000 * changed) \div total
        r == (1000 * changed) % total
    IN IF 2 * r > total THEN q + 1
       ELSE IF 2 * r = total THEN q + (q % 2)
       ELSE q

\* variant: the changed and share fields are printed for an empty horizon too
ReportLine_always_share(thres_name, total, changed) ==
    << << "horizon", thres_name >>, << "total", total >>, << "changed", changed >>,
       << "share", IF total = 0 THEN 0 ELSE SharePercentTenths(changed, total) >> >>

ReportLine(thres_name, total, changed) ==
    IF total = 0
    THEN << << "horizon", thres_name >>, << "total", total >> >>
    ELSE << << "horizon", thres_name >>, << "total", total >>,
            << "changed", changed >>, << "share", SharePercentTenths(changed, total) >> >>

Exit(status, why) ==
    /\ pc' = "exit"
    /\ exit_status' = status
    /\ error' = why

\* --------------------------------------------------- parse_args, lines 67-85
check_input_missing ==
    /\ pc = "parse_args"
    /\ files[file_idx] = "missing"
    /\ output' = Append(output, ErrorLine("doesn't exist", file_idx))
    /\ Exit(1, "SystemExit")
    /\ UNCHANGED << files, file_idx, opened, data, entry_idx, nodes, asmap_prev, asmap_cur,
                    thresholds, thres_idx, node_idx, nodes_total, nodes_changed >>

\* variant: the is_file() test is left out
check_input_not_file_ignored ==
    /\ pc = "parse_args"
    /\ files[file_idx] = "directory"
    /\ IF file_idx < 3
       THEN /\ file_idx' = file_idx + 1
            /\ pc' = "parse_args"
       ELSE /\ file_idx' = file_idx
            /\ pc' = "get_clearnet_nodes"
    /\ UNCHANGED << files, opened, data, entry_idx, nodes, asmap_prev, asmap_cur,
                    thresholds, thres_idx, node_idx, nodes_total, nodes_changed, output,
                    error, exit_status >>

check_input_not_file ==
    /\ pc = "parse_args"
    /\ files[file_idx] = "directory"
    /\ output' = Append(output, ErrorLine("isn't a file", file_idx))
    /\ Exit(1, "SystemExit")
    /\ UNCHANGED << files, file_idx, opened, data, entry_idx, nodes, asmap_prev, asmap_cur,
                    thresholds, thres_idx, node_idx, nodes_total, nodes_changed >>

check_input_ok ==
    /\ pc = "parse_args"
    /\ files[file_idx] = "file"
    /\ IF file_idx < 3
       THEN /\ file_idx' = file_idx + 1
            /\ pc' = "parse_args"
       ELSE /\ file_idx' = file_idx
            /\ pc' = "get_clearnet_nodes"
    /\ UNCHANGED << files, opened, data, entry_idx, nodes, asmap_prev, asmap_cur,
                    thresholds, thres_idx, node_idx, nodes_total, nodes_changed, output,
                    error, exit_status >>

\* ------------------------------------------- get_clearnet_nodes, lines 88-99
\* open() and json.load() of a file that parses
load_json ==
    /\ pc = "get_clearnet_nodes"
    /\ opened' = opened \cup { 1 }
    /\ \E d \in DataFiles : data' = d
    /\ nodes' = << >>
    /\ entry_idx' = 1
    /\ pc' = "entries"
    /\ UNCHANGED << files, file_idx, asmap_prev, asmap_cur, thresholds, thres_idx, node_idx,
                    nodes_total, nodes_changed, output, error, exit_status >>

\* json.load() of a file that is not JSON
load_json_malformed ==
    /\ pc = "get_clearnet_nodes"
    /\ opened' = opened \cup { 1 }
    /\ Exit(1, "JSONDecodeError")
    /\ UNCHANGED << files, file_idx, data, entry_idx, nodes, asmap_prev, asmap_cur,
                    thresholds, thres_idx, node_idx, nodes_total, nodes_changed, output >>

\* variant: only ipv4 is kept
IsClearnet_ipv4_only(entry) == entry.network = "ipv4"

IsClearnet(entry) == entry.network \in { "ipv4", "ipv6" }

NodeOf(entry) == [ last_seen |-> entry.time, address |-> entry.address, port |-> entry.port ]

\* entry["network"] of an entry without that field
entry_no_network ==
    /\ pc = "entries"
    /\ entry_idx <= Len(data)
    /\ "network" \notin data[entry_idx].keys
    /\ Exit(1, "KeyError")
    /\ UNCHANGED << files, file_idx, opened, data, entry_idx, nodes, asmap_prev, asmap_cur,
                    thresholds, thres_idx, node_idx, nodes_total, nodes_changed, output >>

\* line 94-95: continue
entry_skip ==
    /\ pc = "entries"
    /\ entry_idx <= Len(data)
    /\ "network" \in data[entry_idx].keys
    /\ ~ IsClearnet(data[entry_idx])
    /\ entry_idx' = entry_idx + 1
    /\ UNCHANGED << files, pc, file_idx, opened, data, nodes, asmap_prev, asmap_cur,
                    thresholds, thres_idx, node_idx, nodes_total, nodes_changed, output,
                    error, exit_status >>

\* line 96: entry["time"], entry["address"], entry["port"] of a clearnet entry
entry_missing_field ==
    /\ pc = "entries"
    /\ entry_idx <= Len(data)
    /\ "network" \in data[entry_idx].keys
    /\ IsClearnet(data[entry_idx])
    /\ ~ ({ "time", "address", "port" } \subseteq data[entry_idx].keys)
    /\ Exit(1, "KeyError")
    /\ UNCHANGED << files, file_idx, opened, data, entry_idx, nodes, asmap_prev, asmap_cur,
                    thresholds, thres_idx, node_idx, nodes_total, nodes_changed, output >>

\* variant: a missing port is tolerated, entry.get("port")
entry_append_default_port ==
    /\ pc = "entries"
    /\ entry_idx <= Len(data)
    /\ "network" \in data[entry_idx].keys
    /\ IsClearnet(data[entry_idx])
    /\ { "time", "address" } \subseteq data[entry_idx].keys
    /\ nodes' = Append(nodes, NodeOf(data[entry_idx]))
    /\ entry_idx' = entry_idx + 1
    /\ UNCHANGED << files, pc, file_idx, opened, data, asmap_prev, asmap_cur,
                    thresholds, thres_idx, node_idx, nodes_total, nodes_changed, output,
                    error, exit_status >>

\* lines 96-97
entry_append ==
    /\ pc = "entries"
    /\ entry_idx <= Len(data)
    /\ "network" \in data[entry_idx].keys
    /\ IsClearnet(data[entry_idx])
    /\ { "time", "address", "port" } \subseteq data[entry_idx].keys
    /\ nodes' = Append(nodes, NodeOf(data[entry_idx]))
    /\ entry_idx' = entry_idx + 1
    /\ UNCHANGED << files, pc, file_idx, opened, data, asmap_prev, asmap_cur,
                    thresholds, thres_idx, node_idx, nodes_total, nodes_changed, output,
                    error, exit_status >>

\* line 98
print_extracted ==
    /\ pc = "entries"
    /\ entry_idx > Len(data)
    /\ output' = Append(output, ExtractedLine(Len(nodes), 1))
    /\ pc' = "return_nodes"
    /\ UNCHANGED << files, file_idx, opened, data, entry_idx, nodes, asmap_prev, asmap_cur,
                    thresholds, thres_idx, node_idx, nodes_total, nodes_changed,
                    error, exit_status >>

\* line 99: the locals of get_clearnet_nodes go out of scope
return_nodes ==
    /\ pc = "return_nodes"
    /\ data' = << >>
    /\ entry_idx' = 0
    /\ pc' = "read_asmap_prev"
    /\ UNCHANGED << files, file_idx, opened, nodes, asmap_prev, asmap_cur,
                    thresholds, thres_idx, node_idx, nodes_total, nodes_changed, output,
                    error, exit_status >>

\* ------------------------------------------------- read_asmap, lines 102-108
read_asmap_prev ==
    /\ pc = "read_asmap_prev"
    /\ opened' = opened \cup { 2 }
    /\ \E m \in Snapshots : asmap_prev' = m
    /\ output' = Append(output, LoadedLine(2))
    /\ pc' = "read_asmap_cur"
    /\ UNCHANGED << files, file_idx, data, entry_idx, nodes, asmap_cur,
                    thresholds, thres_idx, node_idx, nodes_total, nodes_changed,
                    error, exit_status >>

read_asmap_cur ==
    /\ pc = "read_asmap_cur"
    /\ opened' = opened \cup { 3 }
    /\ \E m \in Snapshots : asmap_cur' = m
    /\ output' = Append(output, LoadedLine(3))
    /\ pc' = "compare_asmaps"
    /\ UNCHANGED << files, file_idx, data, entry_idx, nodes, asmap_prev,
                    thresholds, thres_idx, node_idx, nodes_total, nodes_changed,
                    error, exit_status >>

\* load_file() of a file the asmap codec cannot decode
read_asmap_unsupported ==
    /\ pc \in { "read_asmap_prev", "read_asmap_cur" }
    /\ opened' = opened \cup { IF pc = "read_asmap_prev" THEN 2 ELSE 3 }
    /\ Exit(1, "UnsupportedFormat")
    /\ UNCHANGED << files, file_idx, data, entry_idx, nodes, asmap_prev, asmap_cur,
                    thresholds, thres_idx, node_idx, nodes_total, nodes_changed, output >>

\* --------------------------------------------- compare_asmaps, lines 129-165
\* lines 141-146: the dict, in insertion order
\* variant: the dict is written narrowest horizon first
Thresholds_narrowest_first(epoch_now) ==
    << << "last hour", epoch_now - HourSeconds >>,
       << "last day", epoch_now - DaySeconds >>,
       << "last week", epoch_now - WeekSeconds >>,
       << "all", 0 >> >>

Thresholds(epoch_now) ==
    << << "all", 0 >>,
       << "last week", epoch_now - WeekSeconds >>,
       << "last day", epoch_now - DaySeconds >>,
       << "last hour", epoch_now - HourSeconds >> >>

\* line 152, negated: the node belongs to the horizon
InHorizon(node, thres_epoch) == ~ (node.last_seen < thres_epoch)

\* variant: a prefix without a match counts as changed
Differs_unknown_changed(prev, cur, prefix) ==
    \/ lookup(prev, prefix) # lookup(cur, prefix)
    \/ lookup(prev, prefix) = Unknown

\* line 156
Differs(prev, cur, prefix) == lookup(prev, prefix) # lookup(cur, prefix)

\* lines 140-146
compute_thresholds ==
    /\ pc = "compare_asmaps"
    /\ \E epoch_now \in Nows : thresholds' = Thresholds(epoch_now)
    /\ thres_idx' = 1
    /\ pc' = "thresholds"
    /\ UNCHANGED << files, file_idx, opened, data, entry_idx, nodes, asmap_prev, asmap_cur,
                    node_idx, nodes_total, nodes_changed, output, error, exit_status >>

\* variant: the counters are initialised once, before the horizon loop
begin_horizon_no_reset ==
    /\ pc = "thresholds"
    /\ thres_idx <= Len(thresholds)
    /\ node_idx' = 1
    /\ pc' = "nodes"
    /\ UNCHANGED << files, file_idx, opened, data, entry_idx, nodes, asmap_prev, asmap_cur,
                    thresholds, thres_idx, nodes_total, nodes_changed, output,
                    error, exit_status >>

\* lines 148-150
begin_horizon ==
    /\ pc = "thresholds"
    /\ thres_idx <= Len(thresholds)
    /\ nodes_changed' = 0
    /\ nodes_total' = 0
    /\ node_idx' = 1
    /\ pc' = "nodes"
    /\ UNCHANGED << files, file_idx, opened, data, entry_idx, nodes, asmap_prev, asmap_cur,
                    thresholds, thres_idx, output, error, exit_status >>

\* variant: the horizon test guards nodes_total only, the lookups are
\* compared for every node
node_skip_still_compared ==
    /\ pc = "nodes"
    /\ node_idx <= Len(nodes)
    /\ ~ InHorizon(nodes[node_idx], thresholds[thres_idx][2])
    /\ nodes_changed' =
         IF /\ ValidAddress(nodes[node_idx].address)
            /\ Differs(asmap_prev, asmap_cur, net_to_prefix(ip_network(nodes[node_idx].address)))
         THEN nodes_changed + 1
         ELSE nodes_changed
    /\ node_idx' = node_idx + 1
    /\ UNCHANGED << files, pc, file_idx, opened, data, entry_idx, nodes, asmap_prev, asmap_cur,
                    thresholds, thres_idx, nodes_total, output, error, exit_status >>

\* lines 152-153: continue
node_skip ==
    /\ pc = "nodes"
    /\ node_idx <= Len(nodes)
    /\ ~ InHorizon(nodes[node_idx], thresholds[thres_idx][2])
    /\ node_idx' = node_idx + 1
    /\ UNCHANGED << files, pc, file_idx, opened, data, entry_idx, nodes, asmap_prev, asmap_cur,
                    thresholds, thres_idx, nodes_total, nodes_changed, output,
                    error, exit_status >>

\* line 154
node_count ==
    /\ pc = "nodes"
    /\ node_idx <= Len(nodes)
    /\ InHorizon(nodes[node_idx], thresholds[thres_idx][2])
    /\ nodes_total' = nodes_total + 1
    /\ pc' = "lookup"
    /\ UNCHANGED << files, file_idx, opened, data, entry_idx, nodes, asmap_prev, asmap_cur,
                    thresholds, thres_idx, node_idx, nodes_changed, output,
                    error, exit_status >>

\* line 155: ipaddress.ip_network raises ValueError
node_invalid_address ==
    /\ pc = "lookup"
    /\ ~ ValidAddress(nodes[node_idx].address)
    /\ Exit(1, "ValueError")
    /\ UNCHANGED << files, file_idx, opened, data, entry_idx, nodes, asmap_prev, asmap_cur,
                    thresholds, thres_idx, node_idx, nodes_total, nodes_changed, output >>

\* lines 155-157, the lookups differ
node_changed ==
    /\ pc = "lookup"
    /\ ValidAddress(nodes[node_idx].address)
    /\ Differs(asmap_prev, asmap_cur, net_to_prefix(ip_network(nodes[node_idx].address)))
    /\ nodes_changed' = nodes_changed + 1
    /\ node_idx' = node_idx + 1
    /\ pc' = "nodes"
    /\ UNCHANGED << files, file_idx, opened, data, entry_idx, nodes, asmap_prev, asmap_cur,
                    thresholds, thres_idx, nodes_total, output, error, exit_status >>

\* lines 155-156, the lookups agree
node_unchanged ==
    /\ pc = "lookup"
    /\ ValidAddress(nodes[node_idx].address)
    /\ ~ Differs(asmap_prev, asmap_cur, net_to_prefix(ip_network(nodes[node_idx].address)))
    /\ node_idx' = node_idx + 1
    /\ pc' = "nodes"
    /\ UNCHANGED << files, file_idx, opened, data, entry_idx, nodes, asmap_prev, asmap_cur,
                    thresholds, thres_idx, nodes_total, nodes_changed, output,
                    error, exit_status >>

\* lines 158-165: the horizon's report line
print_horizon ==
    /\ pc = "nodes"
    /\ node_idx > Len(nodes)
    /\ output' = Append(output, ReportLine(thresholds[thres_idx][1], nodes_total, nodes_changed))
    /\ thres_idx' = thres_idx + 1
    /\ pc' = "thresholds"
    /\ UNCHANGED << files, file_idx, opened, data, entry_idx, nodes, asmap_prev, asmap_cur,
                    thresholds, node_idx, nodes_total, nodes_changed, error, exit_status >>

\* compare_asmaps returns
end_compare ==
    /\ pc = "thresholds"
    /\ thres_idx > Len(thresholds)
    /\ pc' = "print_args"
    /\ UNCHANGED << files, file_idx, opened, data, entry_idx, nodes, asmap_prev, asmap_cur,
                    thresholds, thres_idx, node_idx, nodes_total, nodes_changed, output,
                    error, exit_status >>

\* ------------------------------------------------------ main, lines 178-179
print_args ==
    /\ pc = "print_args"
    /\ output' = Append(output, ArgsLine)
    /\ pc' = "print_hello"
    /\ UNCHANGED << files, file_idx, opened, data, entry_idx, nodes, asmap_prev, asmap_cur,
                    thresholds, thres_idx, node_idx, nodes_total, nodes_changed,
                    error, exit_status >>

print_hello ==
    /\ pc = "print_hello"
    /\ output' = Append(output, HelloLine)
    /\ pc' = "done"
    /\ exit_status' = 0
    /\ UNCHANGED << files, file_idx, opened, data, entry_idx, nodes, asmap_prev, asmap_cur,
                    thresholds, thres_idx, node_idx, nodes_total, nodes_changed, error >>

Next ==
    \/ check_input_missing
    \/ check_input_not_file
    \/ check_input_ok
    \/ load_json
    \/ load_json_malformed
    \/ entry_no_network
    \/ entry_skip
    \/ entry_missing_field
    \/ entry_append
    \/ print_extracted
    \/ return_nodes
    \/ read_asmap_prev
    \/ read_asmap_cur
    \/ read_asmap_unsupported
    \/ compute_thresholds
    \/ begin_horizon
    \/ node_skip
    \/ node_count
    \/ node_invalid_address
    \/ node_changed
    \/ node_unchanged
    \/ print_horizon
    \/ end_compare
    \/ print_args
    \/ print_hello

Spec == Init /\ [][Next]_vars

\* ------------------------------------------------- reading the output back
HasField(line, key) == \E i \in 1..Len(line) : line[i][1] = key
Field(line, key) == line[CHOOSE i \in 1..Len(line) : line[i][1] = key][2]
Keys(line) == [ i \in 1..Len(line) |-> line[i][1] ]

IsReport(line) == line[1][1] = "horizon"
ReportLines == SelectSeq(output, IsReport)

\* ---------------------------------------------------------------- claims

\* C1: within compare_asmaps 0 <= nodes_changed <= nodes_total holds at every
\* step of the node loop and in every printed report line; both counters are
\* 0 when a horizon starts; nodes_changed only ever grows by one, for the
\* node whose nodes_total increment has just been made.
C1_Step ==
    /\ (pc = "thresholds" /\ pc' = "nodes") => (nodes_total' = 0 /\ nodes_changed' = 0)
    /\ pc' = "lookup" => (pc = "nodes" /\ nodes_total' = nodes_total + 1)
    /\ nodes_changed' # nodes_changed =>
         \/ pc = "thresholds" /\ nodes_changed' = 0
         \/ /\ pc = "lookup"
            /\ nodes_changed' = nodes_changed + 1
            /\ nodes_changed < nodes_total
            /\ nodes_total' = nodes_total

C1_Bounded ==
    /\ 0 <= nodes_changed
    /\ nodes_changed <= nodes_total
    /\ \A i \in 1..Len(ReportLines) :
         HasField(ReportLines[i], "changed") =>
           /\ 0 <= Field(ReportLines[i], "changed")
           /\ Field(ReportLines[i], "changed") <= Field(ReportLines[i], "total")

C1_Counters == [] C1_Bounded /\ [][C1_Step]_vars

C1_Witness ==
    /\ pc = "nodes"
    /\ nodes_changed = 1
    /\ nodes_total = 2
    /\ node_idx = 3

\* nodes of the list that belong to horizon k of thresholds
HorizonPeers(k) == { i \in 1..Len(nodes) : nodes[i].last_seen >= thresholds[k][2] }

\* C2: a peer counted in a horizon is counted in every horizon whose threshold
\* is not larger, and a peer counted in "last hour" is counted in "last day",
\* "last week" and "all": the report lines, printed in the order all, last
\* week, last day, last hour, have non-increasing totals.
C2_Chain ==
    /\ thresholds # << >> =>
         /\ \A j, k \in 1..Len(thresholds) :
              thresholds[k][2] <= thresholds[j][2] => HorizonPeers(j) \subseteq HorizonPeers(k)
         /\ \A j, k \in 1..Len(thresholds) : j < k => HorizonPeers(k) \subseteq HorizonPeers(j)
    /\ \A j, k \in 1..Len(ReportLines) :
         j < k => Field(ReportLines[j], "total") >= Field(ReportLines[k], "total")

Prefixes == { Prefix4, Prefix6 }

SameMapping(prev, cur) == \A p \in Prefixes : lookup(prev, p) = lookup(cur, p)

\* C3: when both snapshots answer every lookup alike, no node is ever counted
\* as changed and every report line with a non-zero total says changed = 0.
C3_Identical ==
    (pc \in { "thresholds", "nodes", "lookup", "print_args", "print_hello", "done", "exit" }
       /\ thresholds # << >> /\ SameMapping(asmap_prev, asmap_cur)) =>
      /\ nodes_changed = 0
      /\ \A i \in 1..Len(ReportLines) :
           Field(ReportLines[i], "total") # 0 =>
             /\ HasField(ReportLines[i], "changed")
             /\ Field(ReportLines[i], "changed") = 0

C3_Witness ==
    /\ pc = "done"
    /\ SameMapping(asmap_prev, asmap_cur)
    /\ Len(nodes) = 2
    /\ \A i \in 1..Len(ReportLines) : Field(ReportLines[i], "total") = 2

\* the classification of a node differs between the snapshots: an unmapped
\* prefix equals an unmapped prefix and differs from every AS number
ChangedNode(node) ==
    LET p == net_to_prefix(ip_network(node.address))
        mapped_prev == p \in DOMAIN asmap_prev
        mapped_cur == p \in DOMAIN asmap_cur
    IN IF ~ mapped_prev /\ ~ mapped_cur THEN FALSE
       ELSE IF ~ mapped_prev \/ ~ mapped_cur THEN TRUE
       ELSE asmap_prev[p] # asmap_cur[p]

RECURSIVE CountTotal(_, _)
CountTotal(n, thres_epoch) ==
    IF n = 0 THEN 0
    ELSE CountTotal(n - 1, thres_epoch)
         + (IF nodes[n].last_seen >= thres_epoch THEN 1 ELSE 0)

RECURSIVE CountChanged(_, _)
CountChanged(n, thres_epoch) ==
    IF n = 0 THEN 0
    ELSE CountChanged(n - 1, thres_epoch)
         + (IF nodes[n].last_seen >= thres_epoch /\ ChangedNode(nodes[n]) THEN 1 ELSE 0)

\* C4: the k-th report line carries, as total, the number of nodes (with
\* multiplicity) whose last_seen is at least the k-th threshold, and as
\* changed the number of those whose classification differs.
C4_Counts ==
    \A k \in 1..Len(ReportLines) :
      /\ Field(ReportLines[k], "horizon") = thresholds[k][1]
      /\ Field(ReportLines[k], "total") = CountTotal(Len(nodes), thresholds[k][2])
      /\ HasField(ReportLines[k], "changed") =>
           Field(ReportLines[k], "changed") = CountChanged(Len(nodes), thresholds[k][2])
      /\ ~ HasField(ReportLines[k], "changed") =>
           CountTotal(Len(nodes), thresholds[k][2]) = 0

C4_Witness ==
    /\ Len(ReportLines) >= 2
    /\ Field(ReportLines[1], "total") = 3
    /\ Field(ReportLines[1], "changed") = 1
    /\ Field(ReportLines[1], "share") = 333
    /\ Field(ReportLines[2], "total") = 2
    /\ Field(ReportLines[2], "changed") = 0
    /\ \E i \in 1..Len(nodes) :
         /\ net_to_prefix(ip_network(nodes[i].address)) \notin DOMAIN asmap_prev
         /\ net_to_prefix(ip_network(nodes[i].address)) \notin DOMAIN asmap_cur

\* C5: a report line has the changed and share fields exactly when its total
\* is not 0; with total 0 it is just horizon and total.  The line printed
\* for a horizon carries that horizon's nodes_total.
C5_ShareOmitted ==
    /\ \A i \in 1..Len(ReportLines) :
         /\ Field(ReportLines[i], "total") = 0 =>
              Keys(ReportLines[i]) = << "horizon", "total" >>
         /\ Field(ReportLines[i], "total") # 0 =>
              Keys(ReportLines[i]) = << "horizon", "total", "changed", "share" >>
    /\ (pc = "thresholds" /\ thres_idx > 1) =>
         Field(ReportLines[Len(ReportLines)], "total") = nodes_total

C5_Witness ==
    /\ Len(ReportLines) = 4
    /\ Field(ReportLines[1], "total") = 1
    /\ HasField(ReportLines[1], "share")
    /\ Field(ReportLines[4], "total") = 0
    /\ ~ HasField(ReportLines[4], "changed")

\* the clearnet entries of a file, in file order, as nodes
ClearnetNodes(d) ==
    LET kept == SelectSeq(d, LAMBDA e : e.network = "ipv4" \/ e.network = "ipv6")
    IN [ i \in 1..Len(kept) |->
           [ last_seen |-> kept[i].time, address |-> kept[i].address, port |-> kept[i].port ] ]

\* C6: get_clearnet_nodes returns the ipv4/ipv6 entries of the file, each as
\* one Node, in file order; the other entries are dropped without an error.
C6_Subsequence ==
    /\ pc = "return_nodes" =>
         /\ nodes = ClearnetNodes(data)
         /\ error = "none"
         /\ Field(output[Len(output)], "Extracted") = Len(nodes)
    /\ pc = "entries" => nodes = ClearnetNodes(SubSeq(data, 1, entry_idx - 1))

C6_Witness ==
    /\ pc = "return_nodes"
    /\ Len(data) = 3
    /\ data[1].network = "ipv6"
    /\ data[2].network = "onion"
    /\ data[3].network = "ipv4"
    /\ Len(nodes) = 2

NoReportLine == Len(ReportLines) = 0

\* C7 as stated: loading fails whenever any entry lacks one of network,
\* address, port, time, whatever its network; a failed load returns no list
\* and prints no report line.
C7_AnyEntry ==
    /\ pc = "return_nodes" => \A i \in 1..Len(data) : Fields \subseteq data[i].keys
    /\ error = "KeyError" => (pc = "exit" /\ NoReportLine)

\* an entry that makes the loader fail
Faulty(entry) ==
    \/ "network" \notin entry.keys
    \/ entry.network \in { "ipv4", "ipv6" } /\ ~ (Fields \subseteq entry.keys)

\* C7 as amended: loading fails whenever an entry lacks network, or is an
\* ipv4/ipv6 entry that lacks address, port or time; the loop never gets past
\* such an entry, no list is returned and no report line is printed.
C7_ClearnetEntry ==
    /\ pc = "return_nodes" => \A i \in 1..Len(data) : ~ Faulty(data[i])
    /\ pc = "entries" => \A i \in 1..(entry_idx - 1) : ~ Faulty(data[i])
    /\ error = "KeyError" =>
         /\ pc = "exit"
         /\ exit_status = 1
         /\ Faulty(data[entry_idx])
         /\ NoReportLine
         /\ opened = { 1 }
    /\ (pc \notin { "parse_args", "get_clearnet_nodes", "entries", "return_nodes", "exit" }) =>
         error = "none"

C7_Witness ==
    /\ error = "KeyError"
    /\ Len(nodes) = 1
    /\ entry_idx = 3
    /\ data[2].network = "onion"
    /\ "port" \notin data[2].keys
    /\ "port" \notin data[3].keys

FirstBad == CHOOSE i \in 1..3 : files[i] # "file" /\ \A j \in 1..(i - 1) : files[j] = "file"

\* C8: with a path that is missing or no regular file the process exits with
\* status 1 at the first such path, in argument order, after printing one
\* diagnostic that names it; nothing is opened or loaded before all three
\* paths have passed.
C8_InputChecks ==
    /\ (\E i \in 1..3 : files[i] # "file") =>
         /\ pc \in { "parse_args", "exit" }
         /\ file_idx <= FirstBad
         /\ opened = {}
         /\ data = << >> /\ nodes = << >> /\ asmap_prev = << >> /\ asmap_cur = << >>
         /\ thresholds = << >>
         /\ pc = "parse_args" => output = << >>
         /\ pc = "exit" =>
              /\ exit_status = 1
              /\ file_idx = FirstBad
              /\ Len(output) = 1
              /\ HasField(output[1], "Error")
              /\ Field(output[1], "input") = ArgNames[FirstBad]
              /\ Field(output[1], "Error") =
                   (IF files[FirstBad] = "missing" THEN "doesn't exist" ELSE "isn't a file")
    /\ (opened # {} \/ pc \notin { "parse_args", "exit" }) => \A i \in 1..3 : files[i] = "file"

C8_Witness ==
    /\ pc = "exit"
    /\ files = << "file", "directory", "missing" >>
    /\ Len(output) = 1

HorizonNames == << "all", "last week", "last day", "last hour" >>

\* C9: a successful run prints the extracted-peers line, the two snapshot
\* load lines, then one report line per horizon in the order all, last week,
\* last day, last hour; no report line ever precedes a load line and no
\* horizon is reported twice.
C9_OutputOrder ==
    /\ pc = "done" =>
         /\ exit_status = 0
         /\ Len(output) >= 7
         /\ Keys(output[1]) = << "Extracted", "from" >>
         /\ Field(output[1], "Extracted") = Len(nodes)
         /\ output[2] = << << "Loaded", "previous_asmap_file" >> >>
         /\ output[3] = << << "Loaded", "current_asmap_file" >> >>
         /\ \A k \in 1..4 : IsReport(output[3 + k]) /\ Field(output[3 + k], "horizon") = HorizonNames[k]
         /\ Len(ReportLines) = 4
    /\ \A i, j \in 1..Len(output) :
         (i < j /\ IsReport(output[i])) => output[j][1][1] \notin { "Extracted", "Loaded" }
    /\ \A i, j \in 1..Len(ReportLines) :
         i # j => Field(ReportLines[i], "horizon") # Field(ReportLines[j], "horizon")
    /\ \A i \in 1..Len(ReportLines) : Field(ReportLines[i], "horizon") = HorizonNames[i]

C9_Witness ==
    /\ pc = "done"
    /\ Len(nodes) = 1
    /\ Len(output) = 9

\* C10: a retained peer with an unparseable address aborts the run in the
\* first horizon, before any report line; no report line is printed before
\* such an abort, and no run completes with such a peer in its list.
C10_NoPartialReport ==
    /\ error = "ValueError" => (thres_idx = 1 /\ NoReportLine)
    /\ pc = "done" => \A i \in 1..Len(nodes) : ValidAddress(nodes[i].address)

====
